---- MODULE Spec2Model ----
(***************************************************************************)
(* The MCP tool bridge of aiq: MCPToolConfig / MCPServerConfig validation  *)
(* (model_post_init), the mcp_tool async generator (resolve transport,     *)
(* open the client in an `async with`, discover the tool, yield the        *)
(* function) and the exposed _response_fn with its return_exception        *)
(* policy.                                                                 *)
(***************************************************************************)
EXTENDS Integers, Sequences, FiniteSets, TLC

\* ------------------------------------------------------------ bounds

\* How many calls of the exposed function one run makes.
MaxCalls == 2

\* ------------------------------------------------------------ values

\* Python's `X | None`: None is the empty tuple, a present value v is <<v>>.
None == <<>>
Some(v) == <<v>>

\* The Literal of transport_type.
TransportTypes == {"sse", "stdio", "streamable-http"}

\* Raw field values a configuration file can give.
RawUrls == {None, Some(""), Some("http://host/mcp")}
RawTransportTypes == {None} \cup {Some(t) : t \in TransportTypes}
RawCommands == {None, Some(""), Some("tool-server")}
RawArgs == {None, Some(<<>>), Some(<<"--mode", "x">>)}
RawEnvs == {None, Some({}), Some({<<"KEY", "v">>})}

\* The shared server registry holds one MCP server and one A2A server.
RawServers == {None, Some("mcp_srv"), Some("a2a_srv")}

\* Python truthiness of `str | None` / `HttpUrl | None`: None and "" are falsy.
Truthy(opt) == opt # None /\ opt[1] # ""

\* pydantic's field validation of `url: HttpUrl | None`: an empty string is
\* no URL and is refused before model_post_init runs.
FieldsValid(raw) == raw.url = None \/ raw.url[1] # ""

\* The field default: transport_type = "sse" when the file does not give it.
TransportTypeDefault == "sse"
WithDefaults(raw) ==
    [raw EXCEPT !.transport_type =
        IF raw.transport_type = None THEN TransportTypeDefault
        ELSE raw.transport_type[1]]

NoError == "ok"

\* ------------------------------------------------------------ MCPServerConfig

\* Mutant: for sse/streamable-http only command is refused, args and env pass.
MCPServerConfig_model_post_init_CommandOnly(self) ==
    IF self.transport_type = "stdio"
    THEN IF self.url # None
         THEN "url should not be set when using stdio transport type"
         ELSE IF ~Truthy(self.command)
              THEN "command is required when using stdio transport type"
              ELSE NoError
    ELSE IF self.transport_type \in {"streamable-http", "sse"}
    THEN IF self.command # None
         THEN "command, args, and env should not be set when using sse/streamable-http transport type"
         ELSE IF ~Truthy(self.url)
              THEN "url is required when using sse/streamable-http transport type"
              ELSE NoError
    ELSE NoError

\* model_post_init (mcp_server.py 37-51): the ValueError raised, or NoError.
MCPServerConfig_model_post_init(self) ==
    IF self.transport_type = "stdio"
    THEN IF self.url # None
         THEN "url should not be set when using stdio transport type"
         ELSE IF ~Truthy(self.command)
              THEN "command is required when using stdio transport type"
              ELSE NoError
    ELSE IF self.transport_type \in {"streamable-http", "sse"}
    THEN IF self.command # None \/ self.args # None \/ self.env # None
         THEN "command, args, and env should not be set when using sse/streamable-http transport type"
         ELSE IF ~Truthy(self.url)
              THEN "url is required when using sse/streamable-http transport type"
              ELSE NoError
    ELSE NoError

\* ------------------------------------------------------------ MCPToolConfig

\* Mutant: for stdio the command is required to be present, not non-empty
\* (`self.command is None` for `not self.command`).
DirectConfigCheck_CommandPresent(self) ==
    IF self.transport_type = "stdio"
    THEN IF self.url # None
         THEN "url should not be set when using stdio transport type"
         ELSE IF self.command = None
              THEN "command is required when using stdio transport type"
              ELSE NoError
    ELSE IF self.transport_type \in {"streamable-http", "sse"}
    THEN IF self.command # None \/ self.args # None \/ self.env # None
         THEN "command, args, and env should not be set when using sse/streamable-http transport type"
         ELSE IF ~Truthy(self.url)
              THEN "url is required when using sse/streamable-http transport type"
              ELSE NoError
    ELSE NoError

\* The direct configuration checks (mcp_tool.py 81-91).
DirectConfigCheck(self) ==
    IF self.transport_type = "stdio"
    THEN IF self.url # None
         THEN "url should not be set when using stdio transport type"
         ELSE IF ~Truthy(self.command)
              THEN "command is required when using stdio transport type"
              ELSE NoError
    ELSE IF self.transport_type \in {"streamable-http", "sse"}
    THEN IF self.command # None \/ self.args # None \/ self.env # None
         THEN "command, args, and env should not be set when using sse/streamable-http transport type"
         ELSE IF ~Truthy(self.url)
              THEN "url is required when using sse/streamable-http transport type"
              ELSE NoError
    ELSE NoError

\* With a server reference (mcp_tool.py 75-78).
ServerRefCheck(self) ==
    IF self.url # None \/ self.command # None \/ self.args # None \/ self.env # None
    THEN "Direct configuration fields should not be set when using server reference"
    ELSE NoError

\* Mutant: a configuration with neither source is let through unchecked.
MCPToolConfig_model_post_init_NeitherPasses(self) ==
    LET using_server_ref == self.server # None
        using_direct_config == self.url # None \/ self.command # None
    IN  IF ~using_server_ref /\ ~using_direct_config
        THEN NoError
        ELSE IF using_server_ref /\ using_direct_config
        THEN "Cannot use both server reference and direct configuration"
        ELSE IF using_server_ref
        THEN ServerRefCheck(self)
        ELSE DirectConfigCheck(self)

\* model_post_init (mcp_tool.py 61-91): the ValueError raised, or NoError.
MCPToolConfig_model_post_init(self) ==
    LET using_server_ref == self.server # None
        using_direct_config == self.url # None \/ self.command # None
    IN  IF ~using_server_ref /\ ~using_direct_config
        THEN "Either server reference or direct configuration must be provided"
        ELSE IF using_server_ref /\ using_direct_config
        THEN "Cannot use both server reference and direct configuration"
        ELSE IF using_server_ref
        THEN ServerRefCheck(self)
        ELSE DirectConfigCheck(self)

\* Constructing a configuration object: field validation, defaults, then
\* model_post_init. The error raised, or NoError.
ConstructServerConfig(raw) ==
    IF ~FieldsValid(raw) THEN "url: Input should be a valid URL"
    ELSE MCPServerConfig_model_post_init(WithDefaults(raw))

ConstructToolConfig(raw) ==
    IF ~FieldsValid(raw) THEN "url: Input should be a valid URL"
    ELSE MCPToolConfig_model_post_init(WithDefaults(raw))


\* The raw configurations the model constructs.
ServerRaws ==
    [transport_type : RawTransportTypes, url : RawUrls, command : RawCommands,
     args : RawArgs, env : RawEnvs]

ToolRaws ==
    [server : RawServers, transport_type : RawTransportTypes, url : RawUrls,
     command : RawCommands, args : RawArgs, env : RawEnvs,
     mcp_tool_name : {"echo", "nope"},
     description : {None, Some(""), Some("custom")},
     return_exception : BOOLEAN]

\* The registry the configurations that do not refer to the MCP server are
\* explored with: they never read it.
DefaultServerRaw ==
    [transport_type |-> None, url |-> Some("http://host/mcp"), command |-> None,
     args |-> None, env |-> None]

\* ------------------------------------------------------------ failures

\* An exception: its class and its message (what str(e) gives).
Failure(cls, msg) == [cls |-> cls, msg |-> msg]

\* asyncio.CancelledError derives from BaseException, not from Exception.
IsException(e) == e.cls # "CancelledError"

str(e) == e.msg

\* ------------------------------------------------------------ remote side

\* The remote catalog: one tool, with its description and input schema. A
\* schema is the set of its required fields, each with the type it takes.
EchoSchema == {<<"text", "str">>}
RemoteCatalog ==
    [echo |-> [name |-> "echo", description |-> "Echo the input",
               input_schema |-> EchoSchema]]

\* What the remote tool answers on success.
Payload == "pong"

\* Argument data of a call: the fields given, each with the type of its value.
\* {} is a call without keyword arguments.
ArgData == {{<<"text", "str">>}, {<<"text", "int">>}}
NoKwargs == {}

\* A pre-typed input: an instance of a schema class holding data (data that
\* does not fit the class is possible through model_construct or assignment).
Instance(schema, data) == [cls |-> schema, data |-> data]

\* What a call of the exposed function is given: tool_input (the data of an
\* instance of the tool's schema class, or None) and **kwargs.
\* Both forms at once are covered by one case: a fitting instance with
\* keyword arguments that do not fit.
CallInputs ==
    {i \in [tool_input : {None} \cup {Some(d) : d \in ArgData},
            kwargs : {NoKwargs} \cup ArgData] :
        \/ i.tool_input = None
        \/ i.kwargs = NoKwargs
        \/ (i.tool_input = Some(EchoSchema) /\ i.kwargs # EchoSchema)}

\* pydantic's model_validate: the data has the schema's fields and types.
model_validate(schema, data) == data = schema

model_dump(instance) == instance.data

\* ------------------------------------------------------------ state

VARIABLES
    srvRaw,     \* the raw configuration of the registry's MCP server
    srvErr,     \* "pending", NoError, or the error its construction raised
    cfgRaw,     \* None, or Some(the raw tool configuration given)
    cfgErr,     \* "pending", NoError, or the error its construction raised
    config,     \* None, or Some(the constructed MCPToolConfig)
    pc,         \* where the program is
    client,     \* None, or Some(the client mcp_tool created)
    conn,       \* the client's connection: Unopened, Open, Closed
    tool,       \* None, or Some(the MCPToolClient get_tool returned)
    exposed,    \* None, or Some(the FunctionInfo mcp_tool yielded)
    setupExc,   \* None, or Some(the exception mcp_tool raised)
    exitBy,     \* how the `async with` block was left
    call,       \* the current call of _response_fn
    ncalls      \* calls started so far

vars == <<srvRaw, srvErr, cfgRaw, cfgErr, config, pc, client, conn, tool,
          exposed, setupExc, exitBy, call, ncalls>>

bridge == <<client, conn, tool, exposed, setupExc, exitBy, call, ncalls>>

NoCall ==
    [st |-> "idle", input |-> [tool_input |-> None, kwargs |-> NoKwargs],
     conn_at_start |-> "Unopened", validated |-> None, invoked |-> FALSE,
     args |-> None, raised |-> None, result |-> None]

Init ==
    /\ srvRaw \in ServerRaws
    /\ srvErr = "pending"
    /\ cfgRaw = None
    /\ cfgErr = "pending"
    /\ config = None
    /\ pc = "load_servers"
    /\ client = None
    /\ conn = "Unopened"
    /\ tool = None
    /\ exposed = None
    /\ setupExc = None
    /\ exitBy = "none"
    /\ call = NoCall
    /\ ncalls = 0

\* ------------------------------------------------------------ configuration

\* The registry's MCP server configuration is constructed.
LoadServer ==
    /\ pc = "load_servers"
    /\ srvErr' = ConstructServerConfig(srvRaw)
    /\ pc' = IF srvErr' = NoError THEN "load_function" ELSE "server_error"
    /\ UNCHANGED <<srvRaw, cfgRaw, cfgErr, config>>
    /\ UNCHANGED bridge

\* The tool configuration is constructed from what the file gives.
LoadFunction ==
    /\ pc = "load_function"
    /\ \E raw \in ToolRaws :
        /\ raw.server = Some("mcp_srv") \/ srvRaw = DefaultServerRaw
        /\ cfgRaw' = Some(raw)
        /\ cfgErr' = ConstructToolConfig(raw)
        /\ config' = IF cfgErr' = NoError THEN Some(WithDefaults(raw)) ELSE None
        /\ pc' = IF cfgErr' = NoError THEN "resolve" ELSE "config_error"
    /\ UNCHANGED <<srvRaw, srvErr>>
    /\ UNCHANGED bridge

\* ------------------------------------------------------------ mcp_tool: setup

\* builder.get_server: the registry's record for a server name.
get_server(ref) ==
    IF ref = "mcp_srv"
    THEN LET c == WithDefaults(srvRaw)
         IN  [server_type |-> "mcp", transport_type |-> c.transport_type,
              url |-> c.url, command |-> c.command, args |-> c.args, env |-> c.env]
    ELSE [server_type |-> "a2a", transport_type |-> "sse",
          url |-> Some("http://host/a2a"), command |-> None, args |-> None,
          env |-> None]

\* str(url) of `source = str(url)` (mcp_tool.py 127, 130): the URL's text, and
\* "None" for None.
str_url(url) == IF url = None THEN "None" ELSE url[1]

\* The client for a transport type (mcp_tool.py 122-133).
InitClient(transport_type, url, command, args, env) ==
    IF transport_type = "stdio"
    THEN [exc |-> None,
          client |-> Some([kind |-> "MCPStdioClient", url |-> None,
                           command |-> command, args |-> args, env |-> env])]
    ELSE IF transport_type = "streamable-http"
    THEN [exc |-> None,
          client |-> Some([kind |-> "MCPStreamableHTTPClient", url |-> Some(str_url(url)),
                           command |-> None, args |-> None, env |-> None])]
    ELSE IF transport_type = "sse"
    THEN [exc |-> None,
          client |-> Some([kind |-> "MCPSSEClient", url |-> Some(str_url(url)),
                           command |-> None, args |-> None, env |-> None])]
    ELSE [exc |-> Some(Failure("ValueError", "Invalid transport type: " \o transport_type)),
          client |-> None]

\* Mutant: the referenced server's type is not checked.
ResolveClient_NoTypeCheck(cfg) ==
    IF cfg.server # None
    THEN LET server_config == get_server(cfg.server[1])
         IN  InitClient(server_config.transport_type, server_config.url,
                        server_config.command, server_config.args,
                        server_config.env)
    ELSE InitClient(cfg.transport_type, cfg.url, cfg.command, cfg.args, cfg.env)

\* The server configuration from the reference or from the direct fields, and
\* the client for it (mcp_tool.py 104-133).
ResolveClient(cfg) ==
    IF cfg.server # None
    THEN LET server_config == get_server(cfg.server[1])
         IN  IF server_config.server_type # "mcp"
             THEN [exc |-> Some(Failure("ValueError",
                                     "Server " \o cfg.server[1] \o " is not an MCP server")),
                   client |-> None]
             ELSE InitClient(server_config.transport_type, server_config.url,
                             server_config.command, server_config.args,
                             server_config.env)
    ELSE InitClient(cfg.transport_type, cfg.url, cfg.command, cfg.args, cfg.env)

Resolve ==
    /\ pc = "resolve"
    /\ LET r == ResolveClient(config[1])
       IN  /\ client' = r.client
           /\ setupExc' = r.exc
           /\ pc' = IF r.exc = None THEN "enter" ELSE "setup_failed"
    /\ UNCHANGED <<srvRaw, srvErr, cfgRaw, cfgErr, config, conn, tool, exposed,
                   exitBy, call, ncalls>>

\* ------------------------------------------------------------ the client

\* Opening the client (`async with client`, __aenter__): the handshake
\* succeeds, or fails with a TransportError.
EnterOutcomes ==
    {[exc |-> None],
     [exc |-> Some(Failure("TransportError", "connection refused"))]}

\* Closing the client (__aexit__): the connection is released; closing a
\* closed connection changes nothing.
client_aexit(c) == "Closed"

\* client.get_tool: the catalog's tool of that name, or NotFoundError.
get_tool(name) ==
    IF name \in DOMAIN RemoteCatalog
    THEN [exc |-> None, tool |-> Some(RemoteCatalog[name])]
    ELSE [exc |-> Some(Failure("NotFoundError", "Tool not found")), tool |-> None]

\* What discovery can end in: get_tool's answer, or a transport fault.
DiscoverOutcomes(name) ==
    {get_tool(name),
     [exc |-> Some(Failure("TransportError", "server unreachable")), tool |-> None]}

\* MCPToolClient.set_description: the description only.
set_description(t, description) == [t EXCEPT !.description = description]

\* Mutant: acall does not look at the connection's state.
AcallOutcomes_NoStateCheck(c) ==
    {[exc |-> None, value |-> Payload],
     [exc |-> Some(Failure("RemoteToolError", "tool failed: bad text")),
      value |-> ""],
     [exc |-> Some(Failure("TransportError", "server unreachable")),
      value |-> ""]}

\* MCPToolClient.acall on a connection in state c: a closed (or never opened)
\* connection fails with TransportError; an open one gives the remote result,
\* the remote tool's error, or a transport fault.
AcallOutcomes(c) ==
    IF c = "Open"
    THEN {[exc |-> None, value |-> Payload],
          [exc |-> Some(Failure("RemoteToolError", "tool failed: bad text")),
           value |-> ""],
          [exc |-> Some(Failure("TransportError", "server unreachable")),
           value |-> ""]}
    ELSE {[exc |-> Some(Failure("TransportError", "connection is not open")),
           value |-> ""]}

\* The task awaiting acall is cancelled: asyncio raises CancelledError at the
\* await.
Cancelled == [exc |-> Some(Failure("CancelledError", "")), value |-> ""]

\* ------------------------------------------------------------ mcp_tool: scope

\* Mutant: the client is closed only when the block ends normally (an
\* explicit close after the yield instead of a context manager).
AsyncWithExit_NormalOnly(c, how) == IF how = "normal" THEN client_aexit(c) ELSE c

\* Leaving the `async with client` block (mcp_tool.py 135): __aexit__ runs
\* however the block is left.
AsyncWithExit(c, how) == client_aexit(c)

\* The description the tool carries after the optional override
\* (mcp_tool.py 138-139).
ConfigureTool(cfg, t) ==
    IF Truthy(cfg.description) THEN set_description(t, cfg.description[1]) ELSE t

\* Mutant: input_schema is not passed on, and the function is exposed with a
\* schema that has no fields.
FunctionInfo_NoSchema(t) == [description |-> t.description, input_schema |-> {}]

\* FunctionInfo.create(...) as yielded (mcp_tool.py 168-171).
FunctionInfo(t) == [description |-> t.description, input_schema |-> t.input_schema]

Enter ==
    /\ pc = "enter"
    /\ \E o \in EnterOutcomes :
        /\ conn' = IF o.exc = None THEN "Open" ELSE conn
        /\ setupExc' = o.exc
        /\ pc' = IF o.exc = None THEN "discover" ELSE "setup_failed"
    /\ UNCHANGED <<srvRaw, srvErr, cfgRaw, cfgErr, config, client, tool, exposed,
                   exitBy, call, ncalls>>

\* get_tool, the description override and the yield (mcp_tool.py 137-171); a
\* failure of get_tool leaves the `async with` block.
Discover ==
    /\ pc = "discover"
    /\ \E o \in DiscoverOutcomes(config[1].mcp_tool_name) :
        IF o.exc = None
        THEN /\ tool' = Some(ConfigureTool(config[1], o.tool[1]))
             /\ exposed' = Some(FunctionInfo(tool'[1]))
             /\ pc' = "yielded"
             /\ UNCHANGED <<conn, setupExc, exitBy>>
        ELSE /\ conn' = AsyncWithExit(conn, "discovery_failed")
             /\ setupExc' = o.exc
             /\ exitBy' = "discovery_failed"
             /\ pc' = "setup_failed"
             /\ UNCHANGED <<tool, exposed>>
    /\ UNCHANGED <<srvRaw, srvErr, cfgRaw, cfgErr, config, client, call, ncalls>>

\* The consumer of the yielded function resumes the generator (normal), or an
\* error or a cancellation is thrown into it at the yield.
ScopeExit ==
    /\ pc = "yielded"
    /\ \E how \in {"normal", "error", "cancelled"} :
        /\ conn' = AsyncWithExit(conn, how)
        /\ exitBy' = how
    /\ pc' = "exited"
    /\ UNCHANGED <<srvRaw, srvErr, cfgRaw, cfgErr, config, client, tool, exposed,
                   setupExc, call, ncalls>>

\* ------------------------------------------------------------ _response_fn

Return(value, via) == Some([kind |-> "return", value |-> value, exc |-> None, via |-> via])
Raise(e, via) == Some([kind |-> "raise", value |-> "", exc |-> Some(e), via |-> via])

\* Mutant: the exception's class name is returned in place of its message.
ResponseFnExcept_ClassName(cfg, e) ==
    IF IsException(e)
    THEN IF cfg.return_exception THEN Return(e.cls, "except") ELSE Raise(e, "except")
    ELSE Raise(e, "uncaught")

\* Mutant: the message is returned whatever return_exception says.
ResponseFnExcept_AlwaysContain(cfg, e) ==
    IF IsException(e) THEN Return(str(e), "except") ELSE Raise(e, "uncaught")

\* Mutant: a TransportError is re-raised instead of contained.
ResponseFnExcept_TransportRaised(cfg, e) ==
    IF IsException(e) /\ e.cls # "TransportError"
    THEN IF cfg.return_exception THEN Return(str(e), "except") ELSE Raise(e, "except")
    ELSE Raise(e, IF IsException(e) THEN "except" ELSE "uncaught")

\* The except clause (mcp_tool.py 155-166): `except Exception` does not catch
\* a BaseException, which propagates.
ResponseFnExcept(cfg, e) ==
    IF IsException(e)
    THEN IF cfg.return_exception THEN Return(str(e), "except") ELSE Raise(e, "except")
    ELSE Raise(e, "uncaught")

\* Mutant: the keyword arguments are sent without model_validate.
ResponseFnTry_NoValidation(t, input) ==
    IF input.tool_input # None
    THEN [exc |-> None, validated |-> None,
          args |-> Some(model_dump(Instance(t.input_schema, input.tool_input[1])))]
    ELSE [exc |-> None, validated |-> None, args |-> Some(input.kwargs)]

\* The try block up to its await (mcp_tool.py 149-154): the arguments sent to
\* tool.acall, or the ValidationError model_validate raised.
ResponseFnTry(t, input) ==
    IF input.tool_input # None
    THEN [exc |-> None, validated |-> None,
          args |-> Some(model_dump(Instance(t.input_schema, input.tool_input[1])))]
    ELSE IF model_validate(t.input_schema, input.kwargs)
    THEN [exc |-> None, validated |-> Some(t.input_schema),
          args |-> Some(input.kwargs)]
    ELSE [exc |-> Some(Failure("ValidationError", "1 validation error for EchoSchema")),
          validated |-> Some(t.input_schema), args |-> None]

\* A call of the exposed function, up to its await of tool.acall or to its
\* end when validation fails. _response_fn keeps no state between calls, so
\* the calls are taken one after another; each may overlap the scope exit.
CallStart ==
    /\ exposed # None
    /\ call.st \in {"idle", "done"}
    /\ ncalls < MaxCalls
    /\ \E input \in CallInputs :
        LET r == ResponseFnTry(tool[1], input)
        IN  call' = [st |-> IF r.exc = None THEN "pending" ELSE "done",
                     input |-> input,
                     conn_at_start |-> conn,
                     validated |-> r.validated,
                     invoked |-> r.exc = None,
                     args |-> r.args,
                     raised |-> r.exc,
                     result |-> IF r.exc = None THEN None
                                ELSE ResponseFnExcept(config[1], r.exc[1])]
    /\ ncalls' = ncalls + 1
    /\ UNCHANGED <<srvRaw, srvErr, cfgRaw, cfgErr, config, pc, client, conn, tool,
                   exposed, setupExc, exitBy>>

\* The await of tool.acall ends: its value is returned, or its exception
\* reaches the except clause.
CallComplete ==
    /\ call.st = "pending"
    /\ \E o \in AcallOutcomes(conn) \cup {Cancelled} :
        call' = [call EXCEPT
                    !.st = "done",
                    !.raised = o.exc,
                    !.result = IF o.exc = None THEN Return(o.value, "acall")
                               ELSE ResponseFnExcept(config[1], o.exc[1])]
    /\ UNCHANGED <<srvRaw, srvErr, cfgRaw, cfgErr, config, pc, client, conn, tool,
                   exposed, setupExc, exitBy, ncalls>>

Next ==
    \/ LoadServer
    \/ LoadFunction
    \/ Resolve
    \/ Enter
    \/ Discover
    \/ ScopeExit
    \/ CallStart
    \/ CallComplete

Spec == Init /\ [][Next]_vars

\* ------------------------------------------------------------ claims

CallDone == config # None /\ call.st = "done"
CallFailedWith(classes) ==
    /\ CallDone
    /\ call.raised # None
    /\ call.raised[1].cls \in classes

Contained(e) ==
    /\ call.result[1].kind = "return"
    /\ call.result[1].via = "except"
    /\ call.result[1].value = e.msg

Propagated(e) ==
    /\ call.result[1].kind = "raise"
    /\ call.result[1].exc = Some(e)

\* C1: with return_exception true, a validation failure or a remote-tool
\* failure raised during a call is contained: the call does not raise and
\* returns exactly the failure's message text.
C1_ContainmentReturnsMessage ==
    (CallFailedWith({"ValidationError", "RemoteToolError"})
        /\ config[1].return_exception)
    => Contained(call.raised[1])

C1_Witness ==
    /\ CallFailedWith({"RemoteToolError"})
    /\ config[1].return_exception
    /\ call.result = Return("tool failed: bad text", "except")

\* C2: with return_exception false, a call whose validation fails or whose
\* remote invocation fails raises the original failure and returns no string.
C2_PropagationRaisesOriginal ==
    (CallDone /\ call.raised # None /\ ~config[1].return_exception)
    => Propagated(call.raised[1])

C2_Witness ==
    /\ CallFailedWith({"ValidationError"})
    /\ ~config[1].return_exception
    /\ call.input.tool_input = None
    /\ ~call.invoked
    /\ call.result[1].kind = "raise"

\* C3 as stated: with return_exception true only validation and remote-tool
\* failures become a returned string, and a transport failure during the
\* invocation is raised as a TransportError.
C3_TransportNotContained ==
    (CallDone /\ config[1].return_exception)
    => /\ (call.result[1].via = "except" /\ call.result[1].kind = "return")
            => call.raised[1].cls \in {"ValidationError", "RemoteToolError"}
       /\ (call.raised # None /\ call.raised[1].cls = "TransportError")
            => Propagated(call.raised[1])

\* C3 amended: with return_exception true a transport failure during the
\* invocation is contained like a validation or remote-tool failure (its
\* message is returned), and only an exception of class Exception is ever
\* turned into a returned string: a cancellation is raised.
C3_TransportContained ==
    (CallDone /\ config[1].return_exception)
    => /\ (call.result[1].via = "except" /\ call.result[1].kind = "return")
            => (call.raised # None /\ IsException(call.raised[1]))
       /\ (call.raised # None /\ call.raised[1].cls = "TransportError")
            => Contained(call.raised[1])
       /\ (call.raised # None /\ ~IsException(call.raised[1]))
            => Propagated(call.raised[1])

C3_Witness ==
    /\ CallFailedWith({"TransportError"})
    /\ config[1].return_exception
    /\ call.conn_at_start = "Open"
    /\ conn = "Open"
    /\ call.input = [tool_input |-> None, kwargs |-> EchoSchema]
    /\ call.result = Return("server unreachable", "except")

\* C4: once the connection was opened, it is Closed after every way of
\* leaving the setup scope (failed discovery, normal end, error or
\* cancellation at the yield); no exit leaves it Open.
C4_ConnectionReleasedOnExit ==
    /\ pc \in {"exited", "setup_failed"} => conn # "Open"
    /\ exitBy # "none" => conn = "Closed"
    /\ pc = "exited" => exitBy \in {"normal", "error", "cancelled"}

C4_Witness ==
    /\ pc = "exited"
    /\ exitBy = "cancelled"
    /\ call.st = "pending"
    /\ conn = "Closed"

\* C5: a call made after the connection was closed ends in an error (raised,
\* or contained when return_exception is true) and never in a remote result.
C5_ClosedConnectionCallFails ==
    (CallDone /\ call.conn_at_start = "Closed")
    => /\ call.raised # None
       /\ call.result[1].via # "acall"
       /\ call.result[1].kind = "return" => config[1].return_exception
       /\ call.result[1].value # Payload

C5_Witness ==
    /\ CallDone
    /\ call.conn_at_start = "Closed"
    /\ call.invoked
    /\ call.raised = Some(Failure("TransportError", "connection is not open"))

\* C6: a configuration error, a server reference to a server that is not an
\* MCP server, or a tool name absent from the remote catalog is raised out of
\* setup whatever return_exception is, and no function is exposed.
C6_SetupFailuresPropagate ==
    /\ cfgErr \notin {"pending", NoError}
        => (pc = "config_error" /\ config = None /\ exposed = None)
    /\ pc = "setup_failed" => (setupExc # None /\ exposed = None /\ ncalls = 0)
    /\ (config # None /\ config[1].server = Some("a2a_srv"))
        => /\ pc \in {"resolve", "setup_failed"}
           /\ exposed = None
           /\ pc = "setup_failed" => setupExc[1].cls = "ValueError"
    /\ (config # None /\ config[1].mcp_tool_name \notin DOMAIN RemoteCatalog)
        => /\ pc \in {"resolve", "enter", "discover", "setup_failed"}
           /\ exposed = None
           /\ exitBy = "discovery_failed"
                => setupExc[1].cls \in {"NotFoundError", "TransportError"}

C6_Witness ==
    /\ pc = "setup_failed"
    /\ config[1].return_exception
    /\ config[1].mcp_tool_name = "nope"
    /\ setupExc = Some(Failure("NotFoundError", "Tool not found"))
    /\ exposed = None

\* ------------------------------------------------------------ claims: configuration

ToolConstructed == cfgRaw # None
ToolRejected == cfgErr \notin {"pending", NoError}
ToolAccepted == cfgErr = NoError
ServerConstructed == srvErr # "pending"
ServerRejected == srvErr \notin {"pending", NoError}
ServerAccepted == srvErr = NoError

\* C7: a tool configuration with no server reference and none of the direct
\* fields url, command, args, env is rejected, whatever its transport type.
C7_NeitherSourceRejected ==
    (ToolConstructed
        /\ cfgRaw[1].server = None /\ cfgRaw[1].url = None
        /\ cfgRaw[1].command = None /\ cfgRaw[1].args = None
        /\ cfgRaw[1].env = None)
    => ToolRejected /\ pc = "config_error" /\ config = None

C7_Witness ==
    /\ ToolConstructed
    /\ cfgRaw[1].server = None /\ cfgRaw[1].url = None
    /\ cfgRaw[1].command = None /\ cfgRaw[1].args = None /\ cfgRaw[1].env = None
    /\ cfgRaw[1].transport_type = Some("stdio")
    /\ cfgErr = "Either server reference or direct configuration must be provided"

\* C8 as stated: a tool configuration with a server reference and any of url,
\* transport_type, command, args, env given is rejected; one with a server
\* reference is accepted only when all five are absent.
C8_ServerRefExcludesInlineFields ==
    (ToolConstructed /\ cfgRaw[1].server # None)
    => (ToolAccepted =>
            /\ cfgRaw[1].url = None
            /\ cfgRaw[1].transport_type = None
            /\ cfgRaw[1].command = None
            /\ cfgRaw[1].args = None
            /\ cfgRaw[1].env = None)

\* C9: with transport type stdio, a direct tool configuration or a server
\* configuration with url set is rejected, one with command absent or empty
\* is rejected, so an accepted one has a non-empty command and no url.
StdioRule(raw, err) ==
    WithDefaults(raw).transport_type = "stdio"
    => /\ raw.url # None => err # NoError
       /\ (raw.command = None \/ raw.command = Some("")) => err # NoError
       /\ err = NoError => (raw.url = None /\ raw.command # None /\ raw.command[1] # "")

C9_StdioRequiresCommandForbidsUrl ==
    /\ (ToolConstructed /\ cfgRaw[1].server = None) => StdioRule(cfgRaw[1], cfgErr)
    /\ ToolRejected => (pc = "config_error" /\ config = None)
    /\ ServerConstructed => StdioRule(srvRaw, srvErr)
    /\ ServerRejected => (pc = "server_error" /\ cfgRaw = None)

C9_Witness ==
    /\ ToolAccepted
    /\ cfgRaw[1].server = None
    /\ cfgRaw[1].transport_type = Some("stdio")
    /\ cfgRaw[1].command = Some("tool-server")
    /\ cfgRaw[1].args = Some(<<"--mode", "x">>)
    /\ cfgRaw[1].mcp_tool_name = "echo"
    /\ client # None
    /\ client[1].kind = "MCPStdioClient"

\* C10: with transport type sse or streamable-http, a direct tool
\* configuration or a server configuration with any of command, args, env set
\* is rejected, one with url absent or empty is rejected, so an accepted one
\* has a url and none of command, args, env.
HttpRule(raw, err) ==
    WithDefaults(raw).transport_type \in {"sse", "streamable-http"}
    => /\ (raw.command # None \/ raw.args # None \/ raw.env # None) => err # NoError
       /\ (raw.url = None \/ raw.url = Some("")) => err # NoError
       /\ err = NoError
            => /\ raw.url # None /\ raw.url[1] # ""
               /\ raw.command = None /\ raw.args = None /\ raw.env = None

C10_HttpRequiresUrlForbidsProcessFields ==
    /\ (ToolConstructed /\ cfgRaw[1].server = None) => HttpRule(cfgRaw[1], cfgErr)
    /\ ToolRejected => (pc = "config_error" /\ config = None)
    /\ ServerConstructed => HttpRule(srvRaw, srvErr)
    /\ ServerRejected => (pc = "server_error" /\ cfgRaw = None)

C10_Witness ==
    /\ ToolRejected
    /\ cfgRaw[1].server = None
    /\ cfgRaw[1].transport_type = Some("sse")
    /\ cfgRaw[1].url = Some("http://host/mcp")
    /\ cfgRaw[1].command = Some("tool-server")
    /\ pc = "config_error"

\* ------------------------------------------------------------ claims: schema

Discovered == RemoteCatalog[config[1].mcp_tool_name]

\* C11: a description override changes only the exposed description: the
\* exposed input schema is the schema discovered for the tool, and it is the
\* schema every validation of a call's input uses, with or without override.
C11_OverrideKeepsSchema ==
    exposed # None
    => /\ exposed[1].input_schema = Discovered.input_schema
       /\ exposed[1].description =
            IF config[1].description \in {None, Some("")}
            THEN Discovered.description
            ELSE config[1].description[1]
       /\ call.validated # None => call.validated[1] = exposed[1].input_schema

C11_Witness ==
    /\ exposed # None
    /\ config[1].description = Some("custom")
    /\ exposed[1].description = "custom"
    /\ exposed[1].input_schema = EchoSchema
    /\ call.st = "done"
    /\ call.validated = Some(EchoSchema)
    /\ call.invoked

\* ------------------------------------------------------------ claims: validation

CallStarted == exposed # None /\ call.st # "idle"

\* The data a call is about: the pre-typed input's when one is given, the
\* keyword arguments otherwise.
InputData == IF call.input.tool_input # None THEN call.input.tool_input[1]
             ELSE call.input.kwargs

Fits(data) == model_validate(tool[1].input_schema, data)

\* C12 as stated: in both input forms the input is validated against the
\* schema before the remote invoke, so an input that does not fit the schema
\* ends in a ValidationError and no remote invocation is issued for it.
C12_ValidatedBeforeInvoke ==
    CallStarted
    => /\ ~Fits(InputData)
            => /\ ~call.invoked
               /\ call.raised # None /\ call.raised[1].cls = "ValidationError"
       /\ call.invoked => Fits(call.args[1])

\* C12 amended: keyword-style input is validated against the tool's schema
\* before the remote invoke, and keyword input that does not fit never causes
\* a remote invocation; a pre-typed input is not validated by the call: its
\* dump is sent to the remote invoke as it is, whatever keyword arguments
\* come with it.
C12_KeywordInputValidatedTypedInputSent ==
    CallStarted
    => /\ call.input.tool_input = None
            => /\ call.validated = Some(tool[1].input_schema)
               /\ call.invoked <=> Fits(call.input.kwargs)
               /\ call.invoked => call.args = Some(call.input.kwargs)
               /\ ~call.invoked
                    => /\ call.st = "done"
                       /\ call.raised # None
                       /\ call.raised[1].cls = "ValidationError"
       /\ call.input.tool_input # None
            => /\ call.validated = None
               /\ call.invoked
               /\ call.args = call.input.tool_input

C12_Witness ==
    /\ CallStarted
    /\ call.input.tool_input = Some({<<"text", "int">>})
    /\ ~Fits(InputData)
    /\ call.invoked
    /\ call.st = "done"
    /\ call.result = Return(Payload, "acall")

====
